---- MODULE Spec2Model ----
(***************************************************************************)
(* Open-interest monitor: the two collectors (src/api_version/main.py,     *)
(* src/main.py), the CSV store they append to, and the two dashboards      *)
(* (src/app.py, src/streamlit_app.py) that read the store and derive the   *)
(* Lighter/Hyperliquid ratio, its linear trend and the projections.        *)
(*                                                                         *)
(* Numbers: every Python float is modelled as an exact rational <<n, d>>   *)
(* in lowest terms with d > 0; <<0, 0>> is NaN / pd.NA.                    *)
(* Time: the clock is in whole seconds.                                    *)
(***************************************************************************)
EXTENDS Integers, Naturals, Sequences, FiniteSets, TLC

VARIABLES collector, pc, now, start_time, timestamp_utc, cycle_data, idx,
          csv_exists, csv_rows, exit_reason, stopped_at, cycles, appends, faults,
          last_call, page, csv_header, reader_df

vars == <<collector, pc, now, start_time, timestamp_utc, cycle_data, idx,
          csv_exists, csv_rows, exit_reason, stopped_at, cycles, appends, faults,
          last_call, page, csv_header, reader_df>>

(* ---------------- program constants ---------------- *)
SCRAPE_INTERVAL_SECONDS == 300
RETRY_SECONDS == 30
SECONDS_PER_DAY == 86400
MILLION == 1000000
MIN_ROWS == 4
MIN_VALID_POINTS == 2
projection_days == {1, 7, 30, 90, 365}

(* ---------------- bounds of the model ---------------- *)
\* cycles a run may start; faults the environment may inject in a run (a
\* failing adapter response, a slow adapter call, a failing write); the
\* duration of a slow adapter call, in scrape intervals (any other call
\* returns within the second); the clock when the collector is launched.
MaxCycles == 3
MaxFaults == 2
SlowIntervals == 2
ClockAtLaunch == 86200
SlowCall == SlowIntervals * SCRAPE_INTERVAL_SECONDS

(* ---------------- exact rationals ---------------- *)
Abs(n) == IF n < 0 THEN -n ELSE n

RECURSIVE Gcd(_, _)
Gcd(a, b) == IF b = 0 THEN a ELSE Gcd(b, a % b)

NaN == <<0, 0>>
IsNaN(a) == a[2] = 0
FNorm(n, d) == LET g == Gcd(Abs(n), d) IN <<n \div g, d \div g>>
F(n) == <<n, 1>>
Zero == F(0)
FAdd(a, b) == LET g == Gcd(a[2], b[2])
              IN  FNorm(a[1] * (b[2] \div g) + b[1] * (a[2] \div g), (a[2] \div g) * b[2])
FNeg(a) == <<-a[1], a[2]>>
FSub(a, b) == FAdd(a, FNeg(b))
FMul(a, b) == LET g1 == Gcd(Abs(a[1]), b[2])
                  g2 == Gcd(Abs(b[1]), a[2])
              IN  FNorm((a[1] \div g1) * (b[1] \div g2), (a[2] \div g2) * (b[2] \div g1))
FInv(a) == IF a[1] > 0 THEN <<a[2], a[1]>> ELSE <<-a[2], -a[1]>>
FDiv(a, b) == FMul(a, FInv(b))
FGt(a, b) == a[1] * b[2] > b[1] * a[2]

RECURSIVE FSum(_)
FSum(s) == IF s = <<>> THEN Zero ELSE FAdd(Head(s), FSum(Tail(s)))

(* ---------------- timestamps ---------------- *)
\* datetime.now(UTC).strftime('%Y-%m-%d %H:%M:%S'): the date and the time of
\* day, to the second.  The date is the day number.
strftime(t) == [date |-> t \div SECONDS_PER_DAY,
                hh   |-> (t % SECONDS_PER_DAY) \div 3600,
                mm   |-> (t % 3600) \div 60,
                ss   |-> t % 60]

\* pd.to_datetime of the stored text: the instant, in seconds.
to_datetime(s) == s.date * SECONDS_PER_DAY + s.hh * 3600 + s.mm * 60 + s.ss

(* ---------------- configuration ---------------- *)
Assets == {"BTC", "ETH"}
Platforms == {"Hyperliquid", "Lighter"}
\* API_CONFIG[...]["pairs"], in iteration order
API_PAIRS == <<"BTC", "ETH">>
\* PLATFORM_CONFIG.items() x config['pairs'], in iteration order
SCRAPE_ORDER == << <<"Lighter", "BTC">>, <<"Lighter", "ETH">>,
                   <<"Hyperliquid", "BTC">>, <<"Hyperliquid", "ETH">> >>
HEADER == <<"Timestamp (UTC)", "Platform", "Asset", "Open Interest (Millions USD)">>

\* The open interest (millions USD) each market really has during the n-th
\* cycle of a run: the values the venues report when a call succeeds.
MarketFeed == [Hyperliquid |-> [BTC |-> <<2, 2, 4, 4>>, ETH |-> <<2, 2, 4, 4>>],
               Lighter     |-> [BTC |-> <<3, 3, 4, 4>>, ETH |-> <<2, 3, 3, 4>>]]
Market(venue, asset, n) ==
    LET feed == MarketFeed[venue][asset]
    IN  feed[IF n < Len(feed) THEN n ELSE Len(feed)]

(* ---------------- structured-response adapters (api_version) ------------- *)
\* An entry of a payload: kind "ok" carries a numeric "openInterest"; "no_oi"
\* has no such key; "bad_number" carries text float() rejects; "not_object"
\* is not a JSON object (it has no .get).
Entry(kind, oi, px) == [kind |-> kind, oi |-> oi, px |-> px]

\* float(asset_ctxs[index].get("openInterest", "0")) * float(...get("markPx", "1"))
\* / 1_000_000; exc when an exception is raised on the way.
hyperliquid_entry(e) ==
    IF e.kind \in {"not_object", "bad_number"} THEN [exc |-> TRUE, val |-> Zero]
    ELSE LET oi_raw == IF e.kind = "no_oi" THEN 0 ELSE e.oi
             oi_usd == oi_raw * e.px
         IN  [exc |-> FALSE, val |-> FNorm(oi_usd, MILLION)]

\* The body of the try block of fetch_hyperliquid_oi.
\* resp.kind: how the HTTP exchange went; resp.len: len(data);
\* resp.indexable: data[1] exists; resp.ctxs: data[1].
hyperliquid_try(resp) ==
    IF resp.kind # "json" THEN [exc |-> TRUE, results |-> [a \in Assets |-> Zero]]
    ELSE IF resp.len > 1 /\ ~resp.indexable THEN [exc |-> TRUE, results |-> [a \in Assets |-> Zero]]
    ELSE LET asset_ctxs == IF resp.len > 1 THEN resp.ctxs ELSE <<>>
             one(i) == IF i - 1 < Len(asset_ctxs)
                       THEN hyperliquid_entry(asset_ctxs[i])
                       ELSE [exc |-> FALSE, val |-> Zero]
         IN  [exc |-> \E i \in 1..Len(API_PAIRS) : one(i).exc,
              results |-> [a \in Assets |->
                     one(CHOOSE i \in 1..Len(API_PAIRS) : API_PAIRS[i] = a).val]]

\* as fetch_hyperliquid_oi, without the except clause
fetch_hyperliquid_oi_unguarded(resp) ==
    LET t == hyperliquid_try(resp)
    IN  [raised |-> t.exc, results |-> t.results]

fetch_hyperliquid_oi(resp) ==
    LET t == hyperliquid_try(resp)
    IN  IF t.exc THEN [raised |-> FALSE, results |-> [a \in Assets |-> Zero]]
        ELSE [raised |-> FALSE, results |-> t.results]

\* A market of the Lighter payload: tickers = the configured pair names that
\* occur in symbol.upper(); key = its key when the payload is a dict.
LMarket(tickers, key, kind, oi) == [tickers |-> tickers, key |-> key, kind |-> kind, oi |-> oi]

\* float(market.get("openInterest", 0)) / 1_000_000
lighter_entry(m) ==
    IF m.kind \in {"not_object", "bad_number"} THEN [exc |-> TRUE, val |-> Zero]
    ELSE [exc |-> FALSE, val |-> FNorm(IF m.kind = "no_oi" THEN 0 ELSE m.oi, MILLION)]

\* for market in data: if pair in market.get("symbol", "").upper(): ...; break
RECURSIVE lighter_scan(_, _)
lighter_scan(markets, pair) ==
    IF markets = <<>> THEN [exc |-> FALSE, found |-> FALSE, val |-> Zero]
    ELSE LET m == Head(markets)
         IN  IF m.kind = "not_object" THEN [exc |-> TRUE, found |-> FALSE, val |-> Zero]
             ELSE IF pair \in m.tickers
                  THEN LET e == lighter_entry(m)
                       IN  [exc |-> e.exc, found |-> ~e.exc, val |-> e.val]
                  ELSE lighter_scan(Tail(markets), pair)

\* market_key = f"{pair}-PERP"; if market_key in data: ...
lighter_lookup(markets, pair) ==
    LET hits == {i \in 1..Len(markets) : markets[i].key = pair}
    IN  IF hits = {} THEN [exc |-> FALSE, found |-> FALSE, val |-> Zero]
        ELSE LET e == lighter_entry(markets[CHOOSE i \in hits : TRUE])
             IN  [exc |-> e.exc, found |-> ~e.exc, val |-> e.val]

\* The body of the try block of fetch_lighter_oi.
lighter_try(resp) ==
    IF resp.kind # "json" THEN [exc |-> TRUE, results |-> [a \in Assets |-> Zero]]
    ELSE LET one(pair) == IF resp.shape = "list" THEN lighter_scan(resp.markets, pair)
                          ELSE IF resp.shape = "dict" THEN lighter_lookup(resp.markets, pair)
                          ELSE [exc |-> FALSE, found |-> FALSE, val |-> Zero]
         IN  [exc |-> \E a \in Assets : one(a).exc,
              results |-> [a \in Assets |-> IF one(a).found THEN one(a).val ELSE Zero]]

fetch_lighter_oi(resp) ==
    LET t == lighter_try(resp)
    IN  IF t.exc THEN [raised |-> FALSE, results |-> [a \in Assets |-> Zero]]
        ELSE [raised |-> FALSE, results |-> t.results]

(* ---------------- page-scrape adapter (src/main.py) ---------------- *)
\* A text is a sequence of characters; the labels "Open Interest" and
\* "24h Volume" of the Hyperliquid header block are one token each.
Digits == <<"0", "1", "2", "3", "4", "5", "6", "7", "8", "9">>
IsDigit(c) == \E i \in 1..10 : Digits[i] = c
DigitVal(c) == (CHOOSE i \in 1..10 : Digits[i] = c) - 1
At(text, i) == IF i \in 1..Len(text) THEN text[i] ELSE ""

RECURSIVE Remove(_, _)
Remove(text, chars) ==
    IF text = <<>> THEN <<>>
    ELSE IF Head(text) \in chars THEN Remove(Tail(text), chars)
    ELSE <<Head(text)>> \o Remove(Tail(text), chars)

\* length of the longest run of characters of `chars` that starts at i
RECURSIVE RunLen(_, _, _)
RunLen(text, i, chars) ==
    IF At(text, i) \in chars THEN 1 + RunLen(text, i + 1, chars) ELSE 0

DigitSet == {Digits[i] : i \in 1..10}

RECURSIVE Pow10(_)
Pow10(n) == IF n = 0 THEN 1 ELSE 10 * Pow10(n - 1)

RECURSIVE DigitsVal(_)
DigitsVal(ds) == IF ds = <<>> THEN 0
                 ELSE DigitsVal(SubSeq(ds, 1, Len(ds) - 1)) * 10 + DigitVal(ds[Len(ds)])

\* float(text) for plain decimal text: digits, at most one ".", at least one
\* digit; anything else is a ValueError (ok = FALSE).
float(text) ==
    LET dots == {i \in 1..Len(text) : text[i] = "."}
        dot  == IF dots = {} THEN Len(text) + 1 ELSE CHOOSE i \in dots : TRUE
        ip   == SubSeq(text, 1, dot - 1)
        fp   == SubSeq(text, dot + 1, Len(text))
        ok   == /\ Cardinality(dots) <= 1
                /\ \A i \in 1..Len(text) : IsDigit(text[i]) \/ text[i] = "."
                /\ Len(ip) + Len(fp) >= 1
    IN  IF ok THEN [ok |-> TRUE,
                    val |-> FNorm(DigitsVal(ip) * Pow10(Len(fp)) + DigitsVal(fp), Pow10(Len(fp)))]
        ELSE [ok |-> FALSE, val |-> Zero]

\* str.strip(): leading and trailing blanks removed
RECURSIVE strip(_)
strip(text) ==
    IF text # <<>> /\ Head(text) = " " THEN strip(Tail(text))
    ELSE IF text # <<>> /\ text[Len(text)] = " " THEN strip(SubSeq(text, 1, Len(text) - 1))
    ELSE text

\* The group 1 of r'Open Interest(\$[\d,]+\.?\d+)' matched right after the
\* label at position i, <<>> when the pattern does not match there:
\* "$", a run of digits and commas, an optional ".", then at least one digit.
oi_match_at(text, i) ==
    IF At(text, i) # "Open Interest" \/ At(text, i + 1) # "$" THEN <<>>
    ELSE LET L == RunLen(text, i + 2, DigitSet \cup {","})
             D == RunLen(text, i + 3 + L, DigitSet)
             shorter == {m \in 2..L : IsDigit(text[i + 1 + m])}
         IN  IF L >= 1 /\ At(text, i + 2 + L) = "." /\ D >= 1
             THEN SubSeq(text, i + 1, i + 2 + L + D)
             ELSE IF shorter = {} THEN <<>>
             ELSE SubSeq(text, i + 1, i + 1 + (CHOOSE m \in shorter : \A k \in shorter : k <= m))

\* re.search: the leftmost match
oi_search(text) ==
    LET hits == {i \in 1..Len(text) : oi_match_at(text, i) # <<>>}
    IN  IF hits = {} THEN <<>>
        ELSE oi_match_at(text, CHOOSE i \in hits : \A k \in hits : i <= k)

\* format_oi_value(oi_text, platform)[0]
format_oi_value(oi_text, platform) ==
    IF platform = "Hyperliquid"
    THEN LET oi_string == oi_search(oi_text)
         IN  IF oi_string # <<>>
             THEN LET f == float(Remove(strip(oi_string), {"$", ","}))
                  IN  IF f.ok THEN FDiv(f.val, F(MILLION)) ELSE Zero
             ELSE Zero
    ELSE IF \E i \in 1..Len(oi_text) : oi_text[i] = "%" THEN Zero
    ELSE LET f == float(Remove(strip(oi_text), {"$", ","}))
         IN  IF f.ok THEN FDiv(f.val, F(MILLION)) ELSE Zero

\* The body of the try block of scrape_market.  load.kind: "text" when
\* page.goto and text_content succeeded, else the exception they raised;
\* load.none: text_content returned None.
scrape_try(platform, load) ==
    IF load.kind # "text" \/ load.none THEN [exc |-> TRUE, val |-> Zero]
    ELSE [exc |-> FALSE, val |-> format_oi_value(load.text, platform)]

scrape_market(platform, pair, load) ==
    LET t == scrape_try(platform, load)
    IN  IF t.exc THEN [raised |-> FALSE, val |-> Zero]
        ELSE [raised |-> FALSE, val |-> t.val]

\* a record of the store (csv row) or of a data frame
Row(ts, platform, asset, oi) == [ts |-> ts, platform |-> platform, asset |-> asset, oi |-> oi]

(* ---------------- the dashboards (src/app.py, src/streamlit_app.py) ------ *)
\* the sequence f[1..n] and the function f over S, with every element computed
RECURSIVE Rows(_, _)
Rows(f, n) == IF n = 0 THEN <<>> ELSE Append(Rows(f, n - 1), f[n])
RECURSIVE Cells(_, _)
Cells(f, S) == IF S = {} THEN <<>>
               ELSE LET c == CHOOSE x \in S : TRUE IN (c :> f[c]) @@ Cells(f, S \ {c})

\* load_data(file_path): the rows of the file with 'Timestamp (UTC)' parsed;
\* the empty frame when the file is absent.
load_data(exists, rows) ==
    IF ~exists THEN <<>>
    ELSE Rows([i \in 1..Len(rows) |->
            Row(to_datetime(rows[i].ts), rows[i].platform, rows[i].asset, rows[i].oi)], Len(rows))

RECURSIVE SortAsc(_)
SortAsc(S) == IF S = {} THEN <<>>
              ELSE LET m == CHOOSE x \in S : \A y \in S : x <= y
                   IN  <<m>> \o SortAsc(S \ {m})

\* the values of the rows of df, in order, that satisfy keep
RECURSIVE Values(_, _, _, _)
Values(df, ts, platform, asset) ==
    IF df = <<>> THEN <<>>
    ELSE (IF Head(df).ts = ts /\ Head(df).platform = platform /\ Head(df).asset = asset
          THEN <<Head(df).oi>> ELSE <<>>) \o Values(Tail(df), ts, platform, asset)

\* df.pivot_table(index='Timestamp (UTC)', columns=['Platform', 'Asset'],
\* values=...): one row per timestamp in ascending order, one column per
\* (platform, asset) that occurs; a cell is the mean of its values, NaN when
\* it has none.
pivot_columns(df) == {<<df[i].platform, df[i].asset>> : i \in 1..Len(df)}
pivot_index(df) == SortAsc({df[i].ts : i \in 1..Len(df)})
pivot_table(df) ==
    LET index == pivot_index(df)
        cell(ts, col) == LET v == Values(df, ts, col[1], col[2])
                         IN  IF v = <<>> THEN NaN ELSE FDiv(FSum(v), F(Len(v)))
        columns == pivot_columns(df)
    IN  Rows([i \in 1..Len(index) |-> Cells([col \in columns |-> cell(index[i], col)], columns)],
             Len(index))

\* .replace(0.0, pd.NA)
replace_zero(pivot) ==
    Rows([i \in 1..Len(pivot) |->
            Cells([col \in DOMAIN pivot[i] |-> IF pivot[i][col] = Zero THEN NaN ELSE pivot[i][col]],
                  DOMAIN pivot[i])], Len(pivot))

\* as ffill_cell, with a missing cell left missing
ffill_cell_unfilled(pivot, i, col) == pivot[i][col]

\* .ffill(): a missing cell takes the last value above it in its column
RECURSIVE ffill_cell(_, _, _)
ffill_cell(pivot, i, col) ==
    IF i = 0 THEN NaN
    ELSE IF ~IsNaN(pivot[i][col]) THEN pivot[i][col]
    ELSE ffill_cell(pivot, i - 1, col)
ffill(pivot) ==
    Rows([i \in 1..Len(pivot) |->
            Cells([col \in DOMAIN pivot[i] |-> ffill_cell(pivot, i, col)], DOMAIN pivot[i])],
         Len(pivot))

\* pivot_df[cols].sum(axis=1): missing cells are skipped; 0 without columns
RECURSIVE SumCols(_, _)
SumCols(row, cols) ==
    IF cols = {} THEN Zero
    ELSE LET c == CHOOSE x \in cols : TRUE
         IN  FAdd(IF IsNaN(row[c]) THEN Zero ELSE row[c], SumCols(row, cols \ {c}))
venue_sum(row, venue) == SumCols(row, {col \in DOMAIN row : col[1] = venue})

\* the value of the ratio when the Hyperliquid sum is not > 0
app_ratio_else == NaN
streamlit_ratio_else == Zero

ratio_frame(df, otherwise) ==
    LET index == pivot_index(df)
        pivot_df == ffill(replace_zero(pivot_table(df)))
    IN  Rows([i \in 1..Len(index) |->
           LET lighter == venue_sum(pivot_df[i], "Lighter")
               hyper   == venue_sum(pivot_df[i], "Hyperliquid")
           IN  [ts |-> index[i], lighter_sum |-> lighter, hyperliquid_sum |-> hyper,
                ratio |-> IF FGt(hyper, Zero) THEN FDiv(lighter, hyper) ELSE otherwise]],
             Len(index))

\* app.calculate_ratio and streamlit_app.calculate_ratio
calculate_ratio(df) == IF df = <<>> THEN <<>> ELSE ratio_frame(df, app_ratio_else)
calculate_ratio_streamlit(df) == IF df = <<>> THEN <<>> ELSE ratio_frame(df, streamlit_ratio_else)

\* (timestamp - start_time).dt.total_seconds() / (24 * 3600)
days_between(ts, start) == FNorm(ts - start, SECONDS_PER_DAY)

IsValid(point) == ~IsNaN(point.ratio)
\* df_ratio.dropna(subset=[ratio])
dropna(df_ratio) == SelectSeq(df_ratio, IsValid)

RECURSIVE Lcm(_)
Lcm(s) == IF s = <<>> THEN 1
          ELSE LET r == Lcm(Tail(s)) IN (Head(s)[2] \div Gcd(Head(s)[2], r)) * r

\* np.polyfit(x, y, 1): the least-squares line through the points.  The
\* sums are taken over x * D, D the common denominator of x, and the slope
\* is scaled back: the same line, with smaller intermediate numbers.
polyfit(x, y) ==
    LET D   == Lcm(x)
        p   == Rows([i \in 1..Len(x) |-> FMul(x[i], F(D))], Len(x))
        n   == F(Len(x))
        sx  == FSum(p)
        sy  == FSum(y)
        sxy == FSum([i \in 1..Len(x) |-> FMul(p[i], y[i])])
        sxx == FSum([i \in 1..Len(x) |-> FMul(p[i], p[i])])
        mp  == FDiv(FSub(FMul(n, sxy), FMul(sx, sy)), FSub(FMul(n, sxx), FMul(sx, sx)))
    IN  [m |-> FMul(mp, F(D)), c |-> FDiv(FSub(sy, FMul(mp, sx)), n)]

\* as trend_origin, counting from the first timestamp of the full series
trend_origin_full_series(df_ratio, df_valid_ratio) == df_ratio[1].ts

\* the instant elapsed days are counted from
trend_origin(df_ratio, df_valid_ratio) == df_valid_ratio[1].ts

\* calculate_linear_trend(df_ratio): with fewer than 2 valid points the frame
\* comes back as it was, without the Time_Days and Linear_Trend columns.
calculate_linear_trend(df_ratio) ==
    LET df_valid_ratio == dropna(df_ratio)
    IN  IF Len(df_valid_ratio) < MIN_VALID_POINTS
        THEN [trend_columns |-> FALSE, m |-> Zero, c |-> Zero,
              rows |-> Rows([i \in 1..Len(df_ratio) |->
                          [point |-> df_ratio[i], time_days |-> NaN, linear_trend |-> NaN]],
                            Len(df_ratio))]
        ELSE LET start == trend_origin(df_ratio, df_valid_ratio)
                 x == Rows([i \in 1..Len(df_valid_ratio) |->
                              days_between(df_valid_ratio[i].ts, start)], Len(df_valid_ratio))
                 y == Rows([i \in 1..Len(df_valid_ratio) |-> df_valid_ratio[i].ratio],
                           Len(df_valid_ratio))
                 fit == polyfit(x, y)
             IN  [trend_columns |-> TRUE, m |-> fit.m, c |-> fit.c,
                  rows |-> Rows([i \in 1..Len(df_ratio) |->
                     LET t == days_between(df_ratio[i].ts, start)
                     IN  [point |-> df_ratio[i], time_days |-> t,
                          linear_trend |-> FAdd(FMul(fit.m, t), fit.c)]], Len(df_ratio))]

\* plot_oi_ratio_and_nominal reads df_ratio['Linear_Trend']: a KeyError when
\* the frame has no such column.
plot_raises(trend) == ~trend.trend_columns

\* display_projections(df_ratio, m_linear, c_linear)
display_projections(trend) ==
    LET last_time_days == trend.rows[Len(trend.rows)].time_days
    IN  [days \in projection_days |->
            FAdd(FMul(trend.m, FAdd(last_time_days, F(days))), trend.c)]
NoProjections == [days \in projection_days |-> NaN]

\* if m_linear != 0.0: display_projections(...)
projections_shown(trend) == trend.m # Zero

Page(app, status, df_len, series, m, c, offered, projections) ==
    [app |-> app, status |-> status, df_len |-> df_len, series |-> series, m |-> m, c |-> c,
     offered |-> offered, projections |-> projections]

\* app.main_app_website(), from load_data on
main_app_website(df_raw) ==
    IF df_raw = <<>> \/ Len(df_raw) < MIN_ROWS
    THEN Page("app", "not_enough_data", Len(df_raw), <<>>, Zero, Zero, FALSE, NoProjections)
    ELSE LET trend == calculate_linear_trend(calculate_ratio(df_raw))
             series == Rows([i \in 1..Len(trend.rows) |-> trend.rows[i].point], Len(trend.rows))
         IN  IF plot_raises(trend)
             THEN Page("app", "KeyError", Len(df_raw), series, trend.m, trend.c, FALSE, NoProjections)
             ELSE IF projections_shown(trend)
             THEN Page("app", "rendered", Len(df_raw), series, trend.m, trend.c, TRUE,
                       display_projections(trend))
             ELSE Page("app", "rendered", Len(df_raw), series, trend.m, trend.c, FALSE, NoProjections)

\* streamlit_app.main_app(), from load_data on: no trend, no projections
main_app(df_raw) ==
    IF df_raw = <<>> \/ Len(df_raw) < MIN_ROWS
    THEN Page("streamlit_app", "not_enough_data", Len(df_raw), <<>>, Zero, Zero, FALSE, NoProjections)
    ELSE Page("streamlit_app", "rendered", Len(df_raw), calculate_ratio_streamlit(df_raw),
              Zero, Zero, FALSE, NoProjections)

(* ---------------- what the venues answer ---------------- *)
HKinds == {"timeout", "connection_error", "http_error", "invalid_json"}
HResp(kind, len, indexable, ctxs) ==
    [kind |-> kind, len |-> len, indexable |-> indexable, ctxs |-> ctxs]
\* the entry of a market that reports v millions: v * 1000 contracts at 1000 USD
HEntry(kind, v) == Entry(kind, v * 1000, 1000)

HyperliquidOk(n) ==
    {HResp("json", 2, TRUE, <<HEntry("ok", Market("Hyperliquid", "BTC", n)),
                              HEntry("ok", Market("Hyperliquid", "ETH", n))>>)}
HyperliquidFailing(n) ==
    LET btc == Market("Hyperliquid", "BTC", n)
        eth == Market("Hyperliquid", "ETH", n)
    IN  {HResp(k, 0, FALSE, <<>>) : k \in HKinds}
        \cup {HResp("json", 2, FALSE, <<>>),                  \* an object, not an array
              HResp("json", 1, TRUE, <<>>),                   \* [meta] only
              HResp("json", 2, TRUE, <<>>),                   \* [meta, []]
              HResp("json", 2, TRUE, <<HEntry("ok", btc)>>),  \* no entry at index 1
              HResp("json", 2, TRUE, <<HEntry("no_oi", btc), HEntry("ok", eth)>>),
              HResp("json", 2, TRUE, <<HEntry("ok", btc), HEntry("bad_number", eth)>>),
              HResp("json", 2, TRUE, <<HEntry("not_object", btc), HEntry("ok", eth)>>)}

LResp(kind, shape, markets) == [kind |-> kind, shape |-> shape, markets |-> markets]
LOk(a, n) == LMarket({a}, a, "ok", Market("Lighter", a, n) * MILLION)
LighterOk(n) ==
    {LResp("json", "list", <<LOk("BTC", n), LOk("ETH", n)>>),
     LResp("json", "list", <<LMarket({}, "SOL", "ok", MILLION), LOk("ETH", n), LOk("BTC", n)>>),
     LResp("json", "dict", <<LOk("BTC", n), LOk("ETH", n)>>)}
LighterFailing(n) ==
    {LResp(k, "other", <<>>) : k \in HKinds}
    \cup {LResp("json", "other", <<>>),                       \* neither list nor dict
          LResp("json", "list", <<>>),
          LResp("json", "list", <<LOk("BTC", n)>>),           \* no ETH market
          LResp("json", "dict", <<LOk("ETH", n)>>),           \* no BTC-PERP key
          LResp("json", "list", <<LMarket({"BTC"}, "BTC", "no_oi", 0), LOk("ETH", n)>>),
          LResp("json", "list", <<LOk("BTC", n), LMarket({"ETH"}, "ETH", "bad_number", 0)>>),
          LResp("json", "dict", <<LMarket({"BTC"}, "BTC", "bad_number", 0), LOk("ETH", n)>>),
          LResp("json", "list", <<LMarket({}, "", "not_object", 0), LOk("BTC", n), LOk("ETH", n)>>)}

\* the text of an amount of v million dollars (v a single digit): "$v,000,000"
Amount(v) == <<"$", Digits[v + 1], ",", "0", "0", "0", ",", "0", "0", "0">>
Load(kind, none, text) == [kind |-> kind, none |-> none, text |-> text]
PageOk(platform, pair, n) ==
    LET v == Market(platform, pair, n)
    IN  IF platform = "Hyperliquid"
        THEN {Load("text", FALSE, <<"24h Volume", "$", "1", "2", ",", "5", "0", "0">>
                                  \o <<"Open Interest">> \o Amount(v) \o <<".", "0", "0", "F">>),
              Load("text", FALSE, <<"Open Interest">> \o Amount(v) \o <<"24h Volume", "$", "7">>)}
        ELSE {Load("text", FALSE, Amount(v)), Load("text", FALSE, <<" ">> \o Amount(v) \o <<".", "0">>)}
PageFailing(platform, pair, n) ==
    {Load(k, FALSE, <<>>) : k \in {"goto_error", "locator_timeout"}}
    \cup {Load("text", TRUE, <<>>)}
    \cup (IF platform = "Hyperliquid"
          THEN {Load("text", FALSE, <<"Open Interest", "-", "-", "24h Volume", "$", "7">>),
                Load("text", FALSE, <<"24h Volume", "$", "7", "0">>),
                Load("text", FALSE, <<"Open Interest", "$", "7">>)}
          ELSE {Load("text", FALSE, <<"0", ".", "0", "1", "%">>),
                Load("text", FALSE, <<"-", "-">>),
                Load("text", FALSE, <<>>),
                Load("text", FALSE, <<"$", "1", ".", "2", ".", "3">>)})

(* ---------------- the collectors ---------------- *)
NoCall == [venue |-> "none"]
NoPage == [app |-> "none"]
\* no reader has loaded the store
NoLoad == [loaded |-> FALSE]
NCalls == IF collector = "api" THEN 2 ELSE Len(SCRAPE_ORDER)
Durations == {0, SlowCall}
Cost(failing, d) == (IF failing THEN 1 ELSE 0) + (IF d = SlowCall THEN 1 ELSE 0)

Init ==
    /\ collector \in {"api", "scraper"}
    /\ pc = "init"
    /\ now = ClockAtLaunch
    /\ start_time = 0
    /\ timestamp_utc = strftime(0)
    /\ cycle_data = <<>>
    /\ idx = 1
    /\ csv_exists = FALSE
    /\ csv_rows = <<>>
    /\ exit_reason = "none"
    /\ stopped_at = "none"
    /\ cycles = 0
    /\ appends = 0
    /\ faults = 0
    /\ last_call = NoCall
    /\ page = NoPage
    /\ csv_header = <<>>
    /\ reader_df = NoLoad

\* CSV_FILE: whether it exists, its header row and its records
CsvFile(exists, header, rows) == [exists |-> exists, header |-> header, rows |-> rows]

\* as init_csv_file, with the file opened in mode 'w' whether it exists or not
init_csv_file_always(file) == CsvFile(TRUE, HEADER, <<>>)

\* init_csv_file(): the file is created with the header row when it is
\* absent, and left alone when it exists.
init_csv_file(file) == IF ~file.exists THEN CsvFile(TRUE, HEADER, <<>>) ELSE file

InitCsvFile ==
    /\ pc = "init"
    /\ LET file == init_csv_file(CsvFile(csv_exists, csv_header, csv_rows))
       IN  /\ csv_exists' = file.exists
           /\ csv_header' = file.header
           /\ csv_rows' = file.rows
    /\ pc' = "cycle"
    /\ UNCHANGED <<collector, reader_df, now, start_time, timestamp_utc, cycle_data, idx, exit_reason,
                   stopped_at, cycles, appends, faults, last_call, page>>

\* top of the while loop: start_time, timestamp_utc, cycle_data = []
CycleStart ==
    /\ pc = "cycle"
    /\ cycles < MaxCycles
    /\ cycles' = cycles + 1
    /\ start_time' = now
    /\ timestamp_utc' = strftime(now)
    /\ cycle_data' = <<>>
    /\ idx' = 1
    /\ pc' = "fetch"
    /\ last_call' = NoCall
    /\ UNCHANGED <<collector, csv_header, reader_df, now, csv_exists, csv_rows, exit_reason, stopped_at, appends,
                   faults, page>>

\* An exception that reaches the loop: the api collector catches it inside
\* the loop and retries after RETRY_SECONDS; the scraper's try encloses the
\* loop, so its handler runs once the loop has been left.
Raise ==
    IF collector = "api"
    THEN pc' = "cooldown" /\ UNCHANGED exit_reason
    ELSE pc' = "exited" /\ exit_reason' = "Exception"

\* as venue_rows, with the failed readings left out
venue_rows_nonzero(ts, venue, results) ==
    SelectSeq([i \in 1..Len(API_PAIRS) |-> Row(ts, venue, API_PAIRS[i], results[API_PAIRS[i]])],
              LAMBDA r : r.oi # Zero)

\* the rows one venue's results add to cycle_data, in dict order
venue_rows(ts, venue, results) ==
    [i \in 1..Len(API_PAIRS) |-> Row(ts, venue, API_PAIRS[i], results[API_PAIRS[i]])]

ApiFetch(venue, responses, failing) ==
    /\ collector = "api"
    /\ pc = "fetch"
    /\ \E resp \in responses, d \in Durations :
         LET r == IF venue = "Hyperliquid" THEN fetch_hyperliquid_oi(resp)
                  ELSE fetch_lighter_oi(resp)
         IN  /\ faults + Cost(failing, d) <= MaxFaults
             /\ faults' = faults + Cost(failing, d)
             /\ now' = now + d
             /\ last_call' = [venue |-> venue, input |-> resp, out |-> r]
             /\ IF r.raised
                THEN Raise /\ UNCHANGED <<cycle_data, idx>>
                ELSE /\ cycle_data' = cycle_data \o venue_rows(timestamp_utc, venue, r.results)
                     /\ idx' = idx + 1
                     /\ pc' = IF idx = NCalls THEN "write" ELSE "fetch"
                     /\ UNCHANGED exit_reason
    /\ UNCHANGED <<collector, csv_header, reader_df, start_time, timestamp_utc, csv_exists, csv_rows, stopped_at,
                   cycles, appends, page>>

FetchHyperliquidOk ==
    idx = 1 /\ ApiFetch("Hyperliquid", HyperliquidOk(cycles), FALSE)
FetchHyperliquidFailing ==
    idx = 1 /\ ApiFetch("Hyperliquid", HyperliquidFailing(cycles), TRUE)
FetchLighterOk ==
    idx = 2 /\ ApiFetch("Lighter", LighterOk(cycles), FALSE)
FetchLighterFailing ==
    idx = 2 /\ ApiFetch("Lighter", LighterFailing(cycles), TRUE)

Scrape(failing) ==
    /\ collector = "scraper"
    /\ pc = "fetch"
    /\ LET platform == SCRAPE_ORDER[idx][1]
           pair == SCRAPE_ORDER[idx][2]
           loads == IF failing THEN PageFailing(platform, pair, cycles)
                    ELSE PageOk(platform, pair, cycles)
       IN  \E load \in loads, d \in Durations :
             LET r == scrape_market(platform, pair, load)
             IN  /\ faults + Cost(failing, d) <= MaxFaults
                 /\ faults' = faults + Cost(failing, d)
                 /\ now' = now + d
                 /\ last_call' = [venue |-> platform, asset |-> pair, input |-> load, out |-> r]
                 /\ IF r.raised
                    THEN Raise /\ UNCHANGED <<cycle_data, idx>>
                    ELSE /\ cycle_data' = Append(cycle_data, Row(timestamp_utc, platform, pair, r.val))
                         /\ idx' = idx + 1
                         /\ pc' = IF idx = NCalls THEN "write" ELSE "fetch"
                         /\ UNCHANGED exit_reason
    /\ UNCHANGED <<collector, csv_header, reader_df, start_time, timestamp_utc, csv_exists, csv_rows, stopped_at,
                   cycles, appends, page>>

ScrapeMarketOk == Scrape(FALSE)
ScrapeMarketFailing == Scrape(TRUE)

\* as writerows, with the file opened in mode 'w'
writerows_truncating(rows, batch) == batch

\* as writerows, with the file closed after the first row
writerows_first_row(rows, batch) == rows \o SubSeq(batch, 1, 1)

\* with open(CSV_FILE, 'a') as f: csv.writer(f).writerows(cycle_data)
writerows(rows, batch) == rows \o batch

WriteBatch ==
    /\ pc = "write"
    /\ csv_rows' = writerows(csv_rows, cycle_data)
    /\ appends' = appends + 1
    /\ pc' = "sleep"
    /\ last_call' = NoCall
    /\ UNCHANGED <<collector, csv_header, reader_df, now, start_time, timestamp_utc, cycle_data, idx, csv_exists,
                   exit_reason, stopped_at, cycles, faults, page>>

\* open() raises (the file is locked, the disk is gone): nothing is written.
WriteFails ==
    /\ pc = "write"
    /\ faults < MaxFaults
    /\ faults' = faults + 1
    /\ Raise
    /\ last_call' = NoCall
    /\ UNCHANGED <<collector, csv_header, reader_df, now, start_time, timestamp_utc, cycle_data, idx, csv_exists,
                   csv_rows, stopped_at, cycles, appends, page>>

\* as wait_time, with the next cycle started at once
wait_time_none(start, end) == 0

\* wait_time = max(0, SCRAPE_INTERVAL_SECONDS - elapsed_time)
wait_time(start, end) ==
    LET elapsed_time == end - start
    IN  IF SCRAPE_INTERVAL_SECONDS - elapsed_time > 0
        THEN SCRAPE_INTERVAL_SECONDS - elapsed_time ELSE 0

\* time.sleep(wait_time), then the loop starts over
Sleep ==
    /\ pc = "sleep"
    /\ now' = now + wait_time(start_time, now)
    /\ pc' = "cycle"
    /\ UNCHANGED <<collector, csv_header, reader_df, start_time, timestamp_utc, cycle_data, idx, csv_exists, csv_rows,
                   exit_reason, stopped_at, cycles, appends, faults, last_call, page>>

\* api collector, except Exception: time.sleep(30), then the loop starts over
Cooldown ==
    /\ pc = "cooldown"
    /\ now' = now + RETRY_SECONDS
    /\ pc' = "cycle"
    /\ UNCHANGED <<collector, csv_header, reader_df, start_time, timestamp_utc, cycle_data, idx, csv_exists, csv_rows,
                   exit_reason, stopped_at, cycles, appends, faults, last_call, page>>

\* as on_keyboard_interrupt, with the rows gathered so far flushed
on_keyboard_interrupt_flush(rows, batch) == rows \o batch

\* What the KeyboardInterrupt handler leaves in the store: it prints and
\* leaves the loop; cycle_data is dropped.
on_keyboard_interrupt(rows, batch) == rows

\* Ctrl+C while the collector starts up, sleeps or is in (or between) adapter
\* calls: the loop is left and the locals of main() are gone.
Stop ==
    /\ pc \in {"init", "fetch", "write", "sleep", "cooldown"}
    /\ csv_rows' = on_keyboard_interrupt(csv_rows, cycle_data)
    /\ stopped_at' = pc
    /\ pc' = "exited"
    /\ exit_reason' = "KeyboardInterrupt"
    /\ cycle_data' = <<>>
    /\ last_call' = NoCall
    /\ UNCHANGED <<collector, csv_header, reader_df, now, start_time, timestamp_utc, idx, csv_exists,
                   cycles, appends, faults, page>>

\* A run of a dashboard script: the page it renders from the store as it is.
\* The store changes in one step (WriteBatch), so a run sees the store as some
\* step of the collector left it; the runs modelled are those on the store of
\* a collector that has stopped, which is every content the store can have.
ReadApp ==
    /\ pc = "exited"
    /\ page.app # "app"
    /\ page' = main_app_website(load_data(csv_exists, csv_rows))
    /\ UNCHANGED <<collector, csv_header, reader_df, pc, now, start_time, timestamp_utc, cycle_data, idx, csv_exists,
                   csv_rows, exit_reason, stopped_at, cycles, appends, faults, last_call>>

ReadStreamlitApp ==
    /\ pc = "exited"
    /\ page.app # "streamlit_app"
    /\ page' = main_app(load_data(csv_exists, csv_rows))
    /\ UNCHANGED <<collector, csv_header, reader_df, pc, now, start_time, timestamp_utc, cycle_data, idx, csv_exists,
                   csv_rows, exit_reason, stopped_at, cycles, appends, faults, last_call>>

Next ==
    \/ InitCsvFile
    \/ CycleStart
    \/ FetchHyperliquidOk
    \/ FetchHyperliquidFailing
    \/ FetchLighterOk
    \/ FetchLighterFailing
    \/ ScrapeMarketOk
    \/ ScrapeMarketFailing
    \/ WriteBatch
    \/ WriteFails
    \/ Sleep
    \/ Cooldown
    \/ Stop
    \/ ReadApp
    \/ ReadStreamlitApp

Spec == Init /\ [][Next]_vars

(* ---------------- the collector in service ---------------- *)
\* A reader (a dashboard run) calls load_data while the collector works: it
\* holds the frame it loaded.
LoadData ==
    /\ pc # "exited"
    /\ reader_df' = [loaded |-> TRUE, df |-> load_data(csv_exists, csv_rows)]
    /\ reader_df' # reader_df
    /\ UNCHANGED <<collector, pc, now, start_time, timestamp_utc, cycle_data, idx, csv_exists,
                   csv_header, csv_rows, exit_reason, stopped_at, cycles, appends, faults,
                   last_call, page>>

\* The collector has ended and is launched again: main() starts over on the
\* store as the last run left it.
Relaunch ==
    /\ pc = "exited"
    /\ pc' = "init"
    /\ start_time' = 0
    /\ timestamp_utc' = strftime(0)
    /\ cycle_data' = <<>>
    /\ idx' = 1
    /\ exit_reason' = "none"
    /\ stopped_at' = "none"
    /\ last_call' = NoCall
    /\ UNCHANGED <<collector, csv_header, reader_df, now, csv_exists, csv_rows, cycles, appends,
                   faults, page>>

\* the collector with a reader beside it
ReaderNext ==
    \/ InitCsvFile
    \/ CycleStart
    \/ FetchHyperliquidOk
    \/ FetchHyperliquidFailing
    \/ FetchLighterOk
    \/ FetchLighterFailing
    \/ ScrapeMarketOk
    \/ ScrapeMarketFailing
    \/ WriteBatch
    \/ WriteFails
    \/ Sleep
    \/ Cooldown
    \/ Stop
    \/ LoadData

ReaderSpec == Init /\ [][ReaderNext]_vars

\* the collector, launched again whenever it has ended
RelaunchNext ==
    \/ InitCsvFile
    \/ CycleStart
    \/ FetchHyperliquidOk
    \/ FetchHyperliquidFailing
    \/ FetchLighterOk
    \/ FetchLighterFailing
    \/ ScrapeMarketOk
    \/ ScrapeMarketFailing
    \/ WriteBatch
    \/ WriteFails
    \/ Sleep
    \/ Cooldown
    \/ Stop
    \/ Relaunch

RelaunchSpec == Init /\ [][RelaunchNext]_vars

(* ======================= the claims ======================= *)
ConfiguredPairs == Platforms \X Assets
NPairs == Cardinality(ConfiguredPairs)

\* one row per configured pair, all with timestamp ts
WholeBatch(batch, ts) ==
    /\ Len(batch) = NPairs
    /\ {<<batch[i].platform, batch[i].asset>> : i \in 1..Len(batch)} = ConfiguredPairs
    /\ \A i \in 1..Len(batch) : batch[i].ts = ts

\* the k-th batch of the store
StoredBatch(k) == SubSeq(csv_rows, NPairs * (k - 1) + 1, NPairs * k)

\* C1: the batch a cycle is about to append, and every batch that was
\* appended, has exactly one row per configured (venue, asset) pair, and all
\* its rows carry the timestamp taken once at the start of the cycle,
\* whatever adapter calls failed.
C1_WholeBatchOneTimestamp ==
    /\ pc = "write" => WholeBatch(cycle_data, strftime(start_time))
    /\ Len(csv_rows) = NPairs * appends
    /\ \A k \in 1..appends : WholeBatch(StoredBatch(k), StoredBatch(k)[1].ts)

\* a batch with failed and successful readings was appended, after a slow call
C1_Witness ==
    /\ appends >= 1
    /\ pc = "sleep"
    /\ now > start_time
    /\ \E i, j \in 1..Len(cycle_data) : cycle_data[i].oi = Zero /\ cycle_data[j].oi # Zero
    /\ StoredBatch(appends) = cycle_data

\* the assets whose value a payload of the structured adapters does not
\* provide: the call failed as a whole, or the entry of the asset is absent
\* or malformed
HyperliquidMissing(resp) ==
    IF resp.kind # "json" \/ ~resp.indexable \/ resp.len < 2 THEN Assets
    ELSE {API_PAIRS[i] : i \in {j \in 1..Len(API_PAIRS) :
                                  j > Len(resp.ctxs) \/ resp.ctxs[j].kind # "ok"}}
LighterMissing(resp) ==
    IF resp.kind # "json" \/ resp.shape \notin {"list", "dict"} THEN Assets
    ELSE {a \in Assets : ~\E i \in 1..Len(resp.markets) :
             /\ resp.markets[i].kind = "ok"
             /\ IF resp.shape = "list" THEN a \in resp.markets[i].tickers
                ELSE resp.markets[i].key = a}
\* a page load that yields no amount
ScrapeMissing(platform, pair, load) == load \in PageFailing(platform, pair, cycles)

\* C2: an adapter call never raises: where the input times out, fails on the
\* network, does not parse, or lacks or garbles the entry of an asset, the
\* adapter returns 0.0 for that (venue, asset), and the cycle goes on to its
\* next step.
C2_AdapterFailureIsZero ==
    last_call.venue # "none" =>
        /\ ~last_call.out.raised
        /\ pc \in {"fetch", "write"}
        /\ collector = "api" /\ last_call.venue = "Hyperliquid" =>
              \A a \in HyperliquidMissing(last_call.input) : last_call.out.results[a] = Zero
        /\ collector = "api" /\ last_call.venue = "Lighter" =>
              \A a \in LighterMissing(last_call.input) : last_call.out.results[a] = Zero
        /\ collector = "scraper" =>
              (ScrapeMissing(last_call.venue, last_call.asset, last_call.input)
                  => last_call.out.val = Zero)

\* a call timed out, 0.0 was returned for both assets, the next call is due
C2_Witness ==
    /\ collector = "api"
    /\ last_call.venue = "Hyperliquid"
    /\ last_call.input.kind = "timeout"
    /\ \A a \in Assets : last_call.out.results[a] = Zero
    /\ pc = "fetch" /\ idx = 2

\* C3: a failure inside a cycle and outside the adapters never ends the loop
\* of a collector: the loop ends only on the external stop signal.
C3_OnlyStopEndsLoop == pc = "exited" => exit_reason = "KeyboardInterrupt"

\* C4: once the stop signal has ended the loop, the store holds exactly the
\* batches of the cycles that completed, each whole, and no row of a cycle
\* that was interrupted before its append.
C4_StopLeavesWholeBatches ==
    exit_reason = "KeyboardInterrupt" =>
        /\ Len(csv_rows) = NPairs * appends
        /\ \A k \in 1..appends : WholeBatch(StoredBatch(k), StoredBatch(k)[1].ts)
        /\ stopped_at \in {"fetch", "write"} =>
              \A i \in 1..Len(csv_rows) : csv_rows[i].ts # timestamp_utc
        /\ stopped_at = "sleep" => StoredBatch(appends)[1].ts = timestamp_utc

\* the signal came between two adapter calls of the second cycle
C4_Witness ==
    /\ exit_reason = "KeyboardInterrupt"
    /\ stopped_at = "fetch"
    /\ idx = 2
    /\ appends = 1
    /\ cycles = 2

\* the points of the derived series a dashboard computed
SeriesPoints == IF page.app = "none" THEN {} ELSE {page.series[i] : i \in 1..Len(page.series)}
ValidPoints == IF page.app = "none" THEN <<>> ELSE SelectSeq(page.series, IsValid)

\* C5: in every ratio implementation, a point whose Hyperliquid sum after
\* forward-fill is 0 has the undefined ratio, never a number; a point whose
\* Hyperliquid sum is > 0 has the ratio Lighter sum / Hyperliquid sum.
C5_ZeroDenominatorIsUndefined ==
    \A p \in SeriesPoints :
        IF FGt(p.hyperliquid_sum, Zero)
        THEN p.ratio = FDiv(p.lighter_sum, p.hyperliquid_sum)
        ELSE IsNaN(p.ratio)

\* C6: an analytics read never raises: on a store that is absent, holds only
\* the header, holds one cycle, or has fewer than 2 timestamps with a defined
\* ratio, the read ends in the not-enough-data outcome or in a rendered
\* result with the degenerate trend.
C6_ReadNeverRaises ==
    page.app # "none" =>
        /\ page.status \in {"not_enough_data", "rendered"}
        /\ Len(ValidPoints) < MIN_VALID_POINTS =>
              \/ page.status = "not_enough_data"
              \/ page.status = "rendered" /\ page.m = Zero /\ page.c = Zero

\* the value stored by batch k for (venue, asset), and the value forward-fill
\* makes of it: the last non-zero value stored up to batch k, 0 without one
StoredValue(k, venue, asset) ==
    LET b == StoredBatch(k)
        i == CHOOSE j \in 1..Len(b) : b[j].platform = venue /\ b[j].asset = asset
    IN  b[i].oi
EffectiveValue(k, venue, asset) ==
    LET S == {j \in 1..k : StoredValue(j, venue, asset) # Zero}
    IN  IF S = {} THEN Zero
        ELSE StoredValue(CHOOSE j \in S : \A l \in S : l <= j, venue, asset)
EffectiveSum(k, venue) ==
    FSum(Rows([i \in 1..Len(API_PAIRS) |-> EffectiveValue(k, venue, API_PAIRS[i])],
              Len(API_PAIRS)))

\* three cycles, one day apart: Hyperliquid totals 10, 0, 14 and Lighter
\* totals 5, 6, 7
ScenarioBatch(day, h_btc, h_eth, l_btc, l_eth) ==
    LET ts == strftime(day * SECONDS_PER_DAY)
    IN  << Row(ts, "Hyperliquid", "BTC", F(h_btc)), Row(ts, "Hyperliquid", "ETH", F(h_eth)),
           Row(ts, "Lighter", "BTC", F(l_btc)), Row(ts, "Lighter", "ETH", F(l_eth)) >>
ScenarioStore ==
    ScenarioBatch(0, 6, 4, 3, 2) \o ScenarioBatch(1, 0, 0, 3, 3) \o ScenarioBatch(2, 8, 6, 4, 3)
ScenarioExpected(series) ==
    /\ Len(series) = 3
    /\ <<series[1].hyperliquid_sum, series[2].hyperliquid_sum, series[3].hyperliquid_sum>>
          = <<F(10), F(10), F(14)>>
    /\ <<series[1].ratio, series[2].ratio, series[3].ratio>>
          = <<FNorm(1, 2), FNorm(3, 5), FNorm(1, 2)>>

\* C7: in both dashboards every venue total of the derived series is the sum,
\* over the assets, of the stored value with an exact 0.0 replaced by the
\* most recent earlier non-zero value of the same (venue, asset) column, or
\* by 0 when there is none; and Hyperliquid totals 10, 0, 14 with Lighter
\* totals 5, 6, 7 give effective totals 10, 10, 14 and ratios 0.5, 0.6, 0.5.
C7_ForwardFillBeforeSum ==
    /\ page.app # "none" /\ page.status # "not_enough_data" =>
          /\ Len(page.series) = appends
          /\ \A k \in 1..appends :
                /\ page.series[k].hyperliquid_sum = EffectiveSum(k, "Hyperliquid")
                /\ page.series[k].lighter_sum = EffectiveSum(k, "Lighter")
    /\ ScenarioExpected(calculate_ratio(load_data(TRUE, ScenarioStore)))
    /\ ScenarioExpected(calculate_ratio_streamlit(load_data(TRUE, ScenarioStore)))

\* a dashboard rendered a series in which a stored 0.0 was filled from an
\* earlier cycle, and one in which a 0.0 had nothing to be filled from
C7_Witness ==
    /\ page.app = "app"
    /\ page.status = "rendered"
    /\ appends = 3
    /\ StoredValue(2, "Hyperliquid", "BTC") = Zero
    /\ EffectiveValue(2, "Hyperliquid", "BTC") # Zero
    /\ StoredValue(1, "Lighter", "ETH") = Zero
    /\ page.series[2].hyperliquid_sum = EffectiveSum(2, "Hyperliquid")

\* C8: the read of app.py offers the projections exactly when at least 2
\* points of the series have a defined ratio, a fitted slope of 0 included;
\* with fewer than 2 such points slope and intercept are 0 and no projection
\* is offered.
C8_ProjectionsIffValidTrend ==
    page.app = "app" =>
        IF Len(ValidPoints) >= MIN_VALID_POINTS
        THEN page.offered /\ \A h \in projection_days : ~IsNaN(page.projections[h])
        ELSE page.m = Zero /\ page.c = Zero /\ ~page.offered

\* elapsed days of the valid points and of the last point of the series,
\* counted from the first valid point
ElapsedDays(point) == FNorm(point.ts - ValidPoints[1].ts, SECONDS_PER_DAY)
Residual(point) == FSub(point.ratio, FAdd(FMul(page.m, ElapsedDays(point)), page.c))

\* C9: when projections are offered, slope and intercept are the least
\* squares line of the valid points over the days elapsed since the first
\* valid point, and for every horizon h the projection is
\* slope * (t_last + h) + intercept with t_last the elapsed days of the last
\* point of the full series; the value is not clamped.
C9_ProjectionFormula ==
    page.app # "none" /\ page.offered =>
        /\ FSum(Rows([i \in 1..Len(ValidPoints) |-> Residual(ValidPoints[i])],
                     Len(ValidPoints))) = Zero
        /\ FSum(Rows([i \in 1..Len(ValidPoints) |->
                        FMul(ElapsedDays(ValidPoints[i]), Residual(ValidPoints[i]))],
                     Len(ValidPoints))) = Zero
        /\ \A h \in projection_days :
              page.projections[h] =
                 FAdd(FMul(page.m, FAdd(ElapsedDays(page.series[Len(page.series)]), F(h))),
                      page.c)

\* projections were offered on a series whose first point has no defined
\* ratio, and the projection a year ahead is negative
C9_Witness ==
    /\ page.app = "app"
    /\ page.offered
    /\ IsNaN(page.series[1].ratio)
    /\ FGt(Zero, page.projections[365])

\* C10: the store is append-only: it holds pairs-per-cycle rows for each
\* completed cycle, a reload returns them in the order of insertion, every
\* step keeps the rows already stored unchanged and in place, and a
\* completed cycle adds its batch at the end.
C10_AppendOnlyLog ==
    /\ [](/\ Len(load_data(TRUE, csv_rows)) = NPairs * appends
          /\ \A i \in 1..Len(csv_rows) :
                load_data(TRUE, csv_rows)[i] =
                   Row(to_datetime(csv_rows[i].ts), csv_rows[i].platform,
                       csv_rows[i].asset, csv_rows[i].oi)
          /\ page.app # "none" => page.df_len = IF csv_exists THEN NPairs * appends ELSE 0)
    /\ [][/\ Len(csv_rows') >= Len(csv_rows)
          /\ SubSeq(csv_rows', 1, Len(csv_rows)) = csv_rows
          /\ appends' = appends + 1 =>
                csv_rows' = csv_rows \o cycle_data /\ Len(cycle_data) = NPairs]_vars

\* two cycles completed and the store was reloaded with both batches
C10_Witness ==
    /\ appends = 2
    /\ page.app = "app"
    /\ page.df_len = 2 * NPairs
    /\ StoredBatch(1)[1].ts # StoredBatch(2)[1].ts

\* the instant batch k of the store is stamped with
BatchTime(k) == to_datetime(StoredBatch(k)[1].ts)

\* C11: in a run of the collector the timestamps of successive appended
\* batches are strictly increasing, also after a cycle that finished late
\* (wait 0) and after an error cooldown: no two batches share a timestamp
\* and the rows of the store are in chronological order.
C11_TimestampsStrictlyIncrease ==
    /\ \A k \in 1..(appends - 1) :
          /\ BatchTime(k) < BatchTime(k + 1)
          /\ StoredBatch(k)[1].ts # StoredBatch(k + 1)[1].ts
    /\ \A i, j \in 1..Len(csv_rows) :
          i < j => to_datetime(csv_rows[i].ts) <= to_datetime(csv_rows[j].ts)

\* the first cycle finished late, the second failed on its write and was
\* followed by the cooldown, the third appended the second batch
C11_Witness ==
    /\ appends = 2
    /\ cycles = 3
    /\ BatchTime(2) - BatchTime(1) = SlowCall + RETRY_SECONDS
    /\ wait_time(BatchTime(1), BatchTime(1) + SlowCall) = 0

C13_InitIdempotent ==
    [][pc = "init" /\ pc' = "cycle" =>
          /\ ~csv_exists => csv_exists' /\ csv_header' = HEADER /\ csv_rows' = <<>>
          /\ csv_exists => csv_exists' /\ csv_header' = csv_header /\ csv_rows' = csv_rows
          /\ Len(csv_header') = 4
          /\ init_csv_file(CsvFile(csv_exists', csv_header', csv_rows'))
                = CsvFile(csv_exists', csv_header', csv_rows')
          /\ init_csv_file(init_csv_file(CsvFile(csv_exists, csv_header, csv_rows)))
                = init_csv_file(CsvFile(csv_exists, csv_header, csv_rows))]_vars

\* the collector was launched again and init has run on a store that holds
\* two batches
C13_Witness ==
    /\ pc = "cycle"
    /\ start_time = 0
    /\ appends = 2
    /\ csv_header = HEADER
    /\ Len(csv_rows) = 2 * NPairs

\* the entry of an asset in a payload of the structured adapters: the
\* positional entry for Hyperliquid, the first market that names the asset
\* (list) or the market under its key (dict) for Lighter; NoEntry when the
\* payload has none
NoEntry == [kind |-> "absent"]
OwnEntry(venue, resp, a) ==
    IF venue = "Hyperliquid"
    THEN LET i == CHOOSE j \in 1..Len(API_PAIRS) : API_PAIRS[j] = a
         IN  IF i <= Len(resp.ctxs) THEN resp.ctxs[i] ELSE NoEntry
    ELSE LET hits == {j \in 1..Len(resp.markets) :
                         IF resp.shape = "list" THEN a \in resp.markets[j].tickers
                         ELSE resp.markets[j].key = a}
         IN  IF hits = {} THEN NoEntry
             ELSE resp.markets[CHOOSE j \in hits : \A l \in hits : j <= l]
\* the value a well-formed entry stands for, in millions
RealValue(venue, e) ==
    IF venue = "Hyperliquid" THEN FNorm(e.oi * e.px, MILLION) ELSE FNorm(e.oi, MILLION)
\* the payload was fetched and has the structure the adapter indexes
PayloadFetched(venue, resp) ==
    /\ resp.kind = "json"
    /\ IF venue = "Hyperliquid" THEN resp.indexable /\ resp.len > 1
       ELSE resp.shape \in {"list", "dict"}

\* C14: in the structured adapters the result for an asset depends on the
\* entry of that asset only: on a fetched payload an asset whose entry is
\* present and well-formed is reported with its real value, whatever the
\* entries of the other assets are, and an asset whose entry is absent or
\* malformed is reported as 0.0.
C14_AssetsIndependent ==
    (collector = "api" /\ last_call.venue # "none"
        /\ PayloadFetched(last_call.venue, last_call.input)) =>
        \A a \in Assets :
            LET e == OwnEntry(last_call.venue, last_call.input, a)
            IN  IF e.kind = "ok"
                THEN last_call.out.results[a] = RealValue(last_call.venue, e)
                ELSE last_call.out.results[a] = Zero

====
